---- MODULE Spec2Model ----
(***************************************************************************)
(* A model of the bump allocator of src/arena.rs (Arena, ArenaSlice) and   *)
(* of the interning pools of src/intern.rs (Pool<T>, StrPool) built on it. *)
(* The mesh builders of src/draw/mod.rs, which allocate their views from   *)
(* an arena, and the input state of src/env (Button, Mouse, Delta) follow. *)
(*                                                                         *)
(* The arena is the pair (data, offset).  Offsets are 0-based as in the    *)
(* source; data is a TLA+ sequence, so the byte at offset i is data[i+1].  *)
(* usize is modelled as an unsigned word of WordBits bits.                 *)
(***************************************************************************)
EXTENDS Integers, Sequences, FiniteSets, TLC

VARIABLES
    data,             \* Arena.data: the byte region (Box<[u8]>)
    offset,           \* Arena.offset: the cursor (Cell<usize>)
    overflow_checks,  \* build profile: TRUE = arithmetic overflow panics (debug)
    panicked,         \* a call has panicked (or had undefined behaviour); the program has stopped
    ret,              \* the last call: its arguments and its result
    handles,          \* log of every ArenaSlice returned since construction
    clears,           \* number of Arena::clear calls since construction (handle log)
    demand,           \* cumulative aligned size requested since the last clear
    failed,           \* some allocation call since the last clear did not return Some
    ref_offset,       \* cursor of a reference arena built by Arena::new at the last clear
    ref_res,          \* result of the last call replayed on the reference arena
    track,            \* which bookkeeping the run keeps: "calls", "handles", "pool",
                      \* "returned", "slices", "strings", "threads", "draw" or "env"
    pool,             \* which object owns the arena: "Arena", "Pool" or "StrPool"
    lookup,           \* Pool.lookup / StrPool.lookup
    generation,       \* Pool.generation
    first,            \* value -> the handle of its first successful intern since clear
    returned,         \* the handle of an interner the caller keeps (a set of at most one)
    held,             \* the handle the caller keeps: an ArenaSlice or an ArenaString
    threads,          \* thread -> its allocate in progress: idle, or the values it read
    interleaved,      \* some allocate read the cursor while another was in progress
    mouse,            \* Mouse: its three buttons, position and scroll
    clock             \* Clock.current: Delta<u64>

vars == <<data, offset, overflow_checks, panicked, ret, handles, clears, demand,
          failed, ref_offset, ref_res, track, pool, lookup, generation, first,
          returned, held, threads, interleaved, mouse, clock>>

arenaGhost == <<handles, clears, demand, failed, ref_offset, ref_res>>
poolVars == <<lookup, generation, first>>
threadVars == <<threads, interleaved>>
envVars == <<mouse, clock>>
poolFrame == <<handles, clears, demand, ref_offset, ref_res, held, threads, interleaved,
               mouse, clock>>

----------------------------------------------------------------------------
(* Bounds of the model *)

WordBits == 5       \* width of usize in the model
MaxCap == 4         \* largest capacity given to Arena::new
MaxCount == 2       \* largest ordinary element count (and string length) of a call
MaxHandles == 3     \* length of the handle log
MaxClears == 2      \* number of clear() calls in a run

WordMod == 2 ^ WordBits
Byte == 0 .. 2      \* the byte values of the model: 0 (fresh memory), 1 and 2

(* The element types of the calls: [size |-> size_of::<T>(), align |-> align_of::<T>()] *)
Types == { [size |-> 0, align |-> 1],     \* ()
           [size |-> 1, align |-> 1],     \* u8
           [size |-> 2, align |-> 2] }    \* u16
U8 == [size |-> 1, align |-> 1]

(* Element counts: the ordinary ones, and those large enough to overflow a word *)
Counts == (0 .. MaxCount) \cup { WordMod \div 2, WordMod - 1 }

(* The n-byte value stored by the arena's calls: 1, 2, 1, 2, ... *)
Ramp(n) == [i \in 1 .. n |-> 1 + ((i - 1) % 2)]
Values(n) == { Ramp(n) }

----------------------------------------------------------------------------
(* Word arithmetic *)

RECURSIVE BitAndN(_, _, _)
BitAndN(a, b, n) ==
    IF n = 0 THEN 0
    ELSE (a % 2) * (b % 2) + 2 * BitAndN(a \div 2, b \div 2, n - 1)

BitAnd(a, b) == BitAndN(a, b, WordBits)
BitNot(a) == WordMod - 1 - a

(* a + b and a * b on usize: the wrapped value and whether it overflowed *)
WAdd(a, b) == [val |-> (a + b) % WordMod, ovf |-> a + b >= WordMod]
WMul(a, b) == [val |-> (a * b) % WordMod, ovf |-> a * b >= WordMod]

(* The least multiple of a that is >= n, in unbounded arithmetic *)
RoundUp(n, a) == ((n + a - 1) \div a) * a

----------------------------------------------------------------------------
(* Arena: the bump arithmetic.  Each of allocate, push and push_slice       *)
(* computes it on its own.  The result is [offset, new_offset, ovf].       *)

allocate_bump(cur, T, len) ==
    LET a1  == WAdd(cur, T.align)
        off == BitAnd((a1.val - 1) % WordMod, BitNot(T.align - 1))
        m   == WMul(T.size, len)
        n   == WAdd(off, m.val)
    IN  [offset |-> off, new_offset |-> n.val, ovf |-> a1.ovf \/ m.ovf \/ n.ovf]

(* A push that forgets to align the cursor *)
push_bump_unaligned(cur, T) ==
    LET n == WAdd(cur, T.size)
    IN  [offset |-> cur, new_offset |-> n.val, ovf |-> n.ovf]

push_bump(cur, T) ==
    LET a1  == WAdd(cur, T.align)
        off == BitAnd((a1.val - 1) % WordMod, BitNot(T.align - 1))
        n   == WAdd(off, T.size)
    IN  [offset |-> off, new_offset |-> n.val, ovf |-> a1.ovf \/ n.ovf]

push_slice_bump(cur, T, len) ==
    LET a1  == WAdd(cur, T.align)
        off == BitAnd((a1.val - 1) % WordMod, BitNot(T.align - 1))
        n   == WAdd(off, T.size * len)      \* size_of_val of an existing slice
    IN  [offset |-> off, new_offset |-> n.val, ovf |-> a1.ovf \/ n.ovf]

(* The branch the call takes: an overflow panics when the build checks it; *)
(* otherwise the test new_offset <= data.len(), and then the bounds check  *)
(* of &self.data[offset].                                                  *)
Outcome(b, cap, checks) ==
    IF b.ovf /\ checks THEN "Panic"
    ELSE IF b.new_offset <= cap
         THEN IF b.offset < cap THEN "Some" ELSE "Panic"
         ELSE "None"

(* A copy that ignores the offset and writes at the start of the region *)
Store_at_start(mem, off, bytes) ==
    [i \in 1 .. Len(mem) |-> IF i <= Len(bytes) THEN bytes[i] ELSE mem[i]]

(* ptr.write / copy_from_nonoverlapping: bytes written at offset off *)
Store(mem, off, bytes) ==
    [i \in 1 .. Len(mem) |->
        IF i > off /\ i <= off + Len(bytes) THEN bytes[i - off] ELSE mem[i]]

(* Deref of a handle: the n bytes at address ptr *)
Read(mem, ptr, n) == [i \in 1 .. n |-> mem[ptr + i]]

(* Arena::new *)
Arena_new(size) == [data |-> [i \in 1 .. size |-> 0], offset |-> 0]

(* A clear that forgets to reset the cursor *)
clear_offset_kept(cur) == cur

(* Arena::clear: the cursor after the call *)
clear_offset(cur) == 0

(* A clear that zeroes the region *)
clear_data_zeroed(mem) == [i \in 1 .. Len(mem) |-> 0]

(* Arena::clear: the region after the call (clear sets the cursor only) *)
clear_data(mem) == mem

(* Arena::size, Arena::occupied, Arena::is_full *)
size == Len(data)
occupied == offset
is_full == occupied = Len(data)

(* The fields of an ArenaSlice<T>; every handle points at the one arena *)
ArenaSlice(ptr, len) == [arena |-> "self", ptr |-> ptr, len |-> len]

----------------------------------------------------------------------------
(* The bookkeeping of a call that is not part of the program's state *)

(* Button (src/env/button.rs): Default, and update(down) *)
Button_default == [down |-> FALSE, repeat |-> FALSE, pressed |-> FALSE,
                   released |-> FALSE]

(* An update that reports a press whenever the button is down *)
Button_update_level(b, down) ==
    [down |-> down, repeat |-> b.down /\ down, pressed |-> down,
     released |-> b.down /\ ~down]

Button_update(b, down) ==
    LET was_down == b.down
    IN  [down |-> down,
         repeat |-> was_down /\ down,
         pressed |-> ~was_down /\ down,
         released |-> was_down /\ ~down]

(* Delta<T> (src/env/delta.rs): new(value), and update(value), which sets  *)
(* delta to value - current and then the value                             *)
Delta_new(value) == [value |-> value, delta |-> value]
Delta_update(d, value) ==
    LET current == d.value
    IN  [value |-> value, delta |-> value - current]

(* Positions are Vec2; a - b is component-wise *)
Vec2_sub(a, b) == <<a[1] - b[1], a[2] - b[2]>>

(* Mouse::default *)
Mouse_default ==
    [left_button |-> Button_default, right_button |-> Button_default,
     middle_button |-> Button_default,
     position |-> [value |-> <<0, 0>>, delta |-> <<0, 0>>],
     scroll |-> [value |-> 0, delta |-> 0]]

NoRet == [op |-> "new", res |-> "Unit", pre |-> 0, fits |-> TRUE, ptr |-> 0,
          ovf |-> FALSE, aligned |-> TRUE, exact |-> TRUE]
NoRes == [res |-> "Unit", ptr |-> 0, since |-> "new"]

(* No allocate in progress on either thread *)
Threads == {1, 2}
Idle == [pc |-> "idle"]
NoThreads == [t \in Threads |-> Idle]

(* No handle kept *)
NoHeld == [kind |-> "none", T |-> U8, ptr |-> 0, len |-> 0, wlen |-> 0,
           text |-> <<>>, written |-> <<>>]

(* The handle operation op returned, as the caller keeps it.  ptr and len  *)
(* are the fields of the ArenaSlice (of ArenaString.inner), wlen is        *)
(* ArenaString.len, which allocate_string and push_string both set to 0.  *)
(* text is what the operation stored, written what write_str appended.    *)
(* The caller drops the handle at the next clear().                        *)
Held(op, T, ptr, len, bytes) ==
    [kind |-> op, T |-> T, ptr |-> ptr, len |-> len, wlen |-> 0,
     text |-> bytes, written |-> <<>>]

(* The operations whose result the caller of a run may keep *)
Keeps(op) ==
    \/ track = "slices" /\ op \in {"allocate", "push", "push_slice"}
    \/ track = "strings" /\ op \in {"allocate_string", "push_string"}

(* The call's true end offset: round_up(cursor, align) + count * size *)
MathEnd(cur, T, len) == RoundUp(cur, T.align) + len * T.size

(* demand saturates just above the capacity: only demand <= capacity is read *)
Sat(n) == IF n > Len(data) THEN Len(data) + 1 ELSE n

(* The effect of one allocation call on the arena and on the bookkeeping:  *)
(* b0 is the call's arithmetic at the cursor, bytes what it stores on      *)
(* success; rb0 is the same call's arithmetic on the reference arena.      *)
ArenaCall(op, T, len, b0, rb0, bytes) ==
    /\ \E b \in {b0}, rb \in {rb0} :
       \E out \in {Outcome(b, Len(data), overflow_checks)},
          rout \in {Outcome(rb, Len(data), overflow_checks)} :
        /\ panicked' = (out = "Panic")
        /\ offset' = IF out = "Some" THEN b.new_offset ELSE offset
        /\ data' = IF out = "Some" THEN Store(data, b.offset, bytes) ELSE data
        /\ CASE track = "calls" ->
                /\ ret' = [op |-> "alloc", res |-> out, pre |-> offset,
                           fits |-> MathEnd(offset, T, len) <= Len(data),
                           ptr |-> IF out = "Some" THEN b.offset ELSE 0,
                           ovf |-> b.ovf,
                           aligned |-> b.offset = RoundUp(offset, T.align),
                           exact |-> offset' = b.offset + len * T.size]
                /\ demand' = Sat(MathEnd(demand, T, len))
                /\ failed' = (failed \/ out # "Some")
                /\ ref_offset' = IF rout = "Some" THEN rb.new_offset ELSE ref_offset
                /\ ref_res' = [res |-> rout,
                               ptr |-> IF rout = "Some" THEN rb.offset ELSE 0,
                               since |-> ref_res.since]
                /\ UNCHANGED <<handles, held>>
             [] track = "handles" ->
                /\ handles' = IF out = "Some"
                              THEN Append(handles,
                                          [h |-> ArenaSlice(b.offset, len),
                                           lo |-> b.offset, hi |-> b.new_offset,
                                           epoch |-> clears])
                              ELSE handles
                /\ UNCHANGED <<ret, demand, failed, ref_offset, ref_res, held>>
             [] OTHER ->
                /\ held' \in IF out = "Some" /\ Keeps(op)
                              THEN {held, Held(op, T, b.offset, len, bytes)}
                              ELSE {held}
                /\ ret' = [NoRet EXCEPT !.op = "alloc"]
                /\ UNCHANGED <<handles, demand, failed, ref_offset, ref_res>>
        /\ UNCHANGED <<overflow_checks, clears, track, pool, poolVars, returned,
                       threadVars, envVars>>

----------------------------------------------------------------------------
(* Arena: the operations *)

Strs == UNION { [1 .. n -> {1, 2}] : n \in 0 .. MaxCount }

CanCall ==
    /\ ~panicked
    /\ pool = "Arena"
    /\ Len(handles) < MaxHandles

allocate(T, len) ==
    /\ CanCall
    /\ ArenaCall("allocate", T, len, allocate_bump(offset, T, len),
                 allocate_bump(ref_offset, T, len), <<>>)

allocate_string(len) ==
    /\ CanCall
    /\ ArenaCall("allocate_string", U8, len, allocate_bump(offset, U8, len),
                 allocate_bump(ref_offset, U8, len), <<>>)

push(T, value) ==
    /\ CanCall
    /\ ArenaCall("push", T, 1, push_bump(offset, T), push_bump(ref_offset, T),
                 value)

push_slice(T, len, values) ==
    /\ CanCall
    /\ ArenaCall("push_slice", T, len, push_slice_bump(offset, T, len),
                 push_slice_bump(ref_offset, T, len), values)

push_string(string) ==
    /\ CanCall
    /\ ArenaCall("push_string", U8, Len(string),
                 push_slice_bump(offset, U8, Len(string)),
                 push_slice_bump(ref_offset, U8, Len(string)), string)

clear ==
    /\ ~panicked
    /\ pool = "Arena"
    /\ offset' = clear_offset(offset)
    /\ data' = clear_data(data)
    /\ CASE track = "calls" ->
            /\ ret' = [NoRet EXCEPT !.op = "clear", !.pre = offset]
            /\ demand' = 0
            /\ failed' = FALSE
            /\ ref_offset' = Arena_new(Len(data)).offset
            /\ ref_res' = [NoRes EXCEPT !.since = "clear"]
            /\ UNCHANGED <<clears, held>>
         [] track = "handles" ->
            /\ clears < MaxClears
            /\ clears' = clears + 1
            /\ UNCHANGED <<ret, demand, failed, ref_offset, ref_res, held>>
         [] OTHER ->
            /\ held' = NoHeld
            /\ ret' = [NoRet EXCEPT !.op = "clear"]
            /\ UNCHANGED <<clears, demand, failed, ref_offset, ref_res>>
    /\ UNCHANGED <<overflow_checks, panicked, handles, track, pool, poolVars,
                   returned, threadVars, envVars>>

----------------------------------------------------------------------------
(* The arena on its own *)

InitArenaWith(t) ==
    /\ \E cap \in 0 .. MaxCap :
          /\ data = Arena_new(cap).data
          /\ offset = Arena_new(cap).offset
    /\ overflow_checks \in BOOLEAN
    /\ panicked = FALSE
    /\ ret = NoRet
    /\ handles = <<>>
    /\ clears = 0
    /\ demand = 0
    /\ failed = FALSE
    /\ ref_offset = 0
    /\ ref_res = NoRes
    /\ track = t
    /\ pool = "Arena"
    /\ lookup = <<>>
    /\ generation = 0
    /\ first = {}
    /\ returned = {}
    /\ held = NoHeld
    /\ threads = NoThreads
    /\ interleaved = FALSE
    /\ mouse = Mouse_default
    /\ clock = Delta_new(0)

NextArena ==
    \/ \E T \in Types, len \in Counts : allocate(T, len)
    \/ \E len \in Counts : allocate_string(len)
    \/ \E T \in Types : \E value \in Values(T.size) : push(T, value)
    \/ \E T \in Types, len \in 0 .. MaxCount :
          \E values \in Values(T.size * len) : push_slice(T, len, values)
    \/ \E len \in 0 .. MaxCount : \E string \in Values(len) : push_string(string)
    \/ clear

(* The arena with the bookkeeping of its calls *)
InitArena == InitArenaWith("calls")
SpecArena == InitArena /\ [][NextArena]_vars

(* The arena with the log of the handles it returned *)
InitHandles == InitArenaWith("handles")
SpecHandles == InitHandles /\ [][NextArena]_vars

----------------------------------------------------------------------------
(* Arena::allocate called from two threads on one arena.  The cursor is a  *)
(* Cell<usize>: allocate reads it with offset.get() and, after the         *)
(* capacity test, writes it with offset.set(new_offset), with no lock and  *)
(* no atomic between the two.                                              *)

(* offset.get() and the arithmetic on the value read *)
allocate_read(t, T, len) ==
    /\ ~panicked
    /\ pool = "Arena"
    /\ track = "threads"
    /\ threads[t] = Idle
    /\ Len(handles) + Cardinality({u \in Threads : threads[u] # Idle}) < MaxHandles
    /\ threads' = [threads EXCEPT ![t] = [pc |-> "read", len |-> len,
                                          b |-> allocate_bump(offset, T, len)]]
    /\ interleaved' = (interleaved \/ \E u \in Threads : threads[u] # Idle)
    /\ UNCHANGED <<data, offset, overflow_checks, panicked, ret, arenaGhost, track,
                   pool, poolVars, returned, held, envVars>>

(* the capacity test, offset.set(new_offset) and the returned handle *)
allocate_write(t) ==
    /\ ~panicked
    /\ pool = "Arena"
    /\ track = "threads"
    /\ threads[t] # Idle
    /\ \E b \in {threads[t].b} :
       \E out \in {Outcome(b, Len(data), overflow_checks)} :
          /\ panicked' = (out = "Panic")
          /\ offset' = IF out = "Some" THEN b.new_offset ELSE offset
          /\ handles' = IF out = "Some"
                        THEN Append(handles,
                                    [h |-> ArenaSlice(b.offset, threads[t].len),
                                     lo |-> b.offset, hi |-> b.new_offset,
                                     epoch |-> clears])
                        ELSE handles
    /\ threads' = [threads EXCEPT ![t] = Idle]
    /\ UNCHANGED <<data, overflow_checks, ret, clears, demand, failed, ref_offset,
                   ref_res, track, pool, poolVars, returned, held, interleaved,
                   envVars>>

InitThreads == InitArenaWith("threads")

NextThreads ==
    \/ \E t \in Threads, T \in Types, len \in Counts : allocate_read(t, T, len)
    \/ \E t \in Threads : allocate_write(t)

SpecThreads == InitThreads /\ [][NextThreads]_vars

----------------------------------------------------------------------------
(* The handles: Clone for ArenaSlice<T> and Write for ArenaString.  The    *)
(* caller keeps one handle (held) and calls clone or write_str on it.      *)

(* The handle's byte range lies inside the region *)
InRegion(h) == h.ptr + h.len * h.T.size <= Len(data)

(* The byte ranges [lo, lo + n) and [lo2, lo2 + n) share a byte *)
Overlap(lo, lo2, n) == n > 0 /\ lo < lo2 + n /\ lo2 < lo + n

(* ArenaSlice::clone: push_slice(&self[..]).unwrap().  A push_slice that   *)
(* does not return Some panics.  The copy is copy_from_nonoverlapping: it  *)
(* is undefined when the source leaves the region or overlaps the target,  *)
(* and then the call faults or leaves any bytes in the target; nothing is  *)
(* known of the program after that, and the run stops as after a panic.    *)
clone ==
    /\ ~panicked
    /\ pool = "Arena"
    /\ track = "slices"
    /\ held.kind # "none"
    /\ \E b \in {push_slice_bump(offset, held.T, held.len)},
          n \in {held.len * held.T.size} :
       \E out \in {Outcome(b, Len(data), overflow_checks)},
          src \in {IF InRegion(held) THEN Read(data, held.ptr, n) ELSE <<>>} :
       \E defined \in {InRegion(held) /\ ~Overlap(held.ptr, b.offset, n)} :
       \E res \in IF out # "Some" THEN {"Panic"}
                  ELSE IF defined THEN {"Some"} ELSE {"Some", "Panic"} :
          /\ panicked' = (res = "Panic" \/ (out = "Some" /\ ~defined))
          /\ offset' = IF out = "Some" THEN b.new_offset ELSE offset
          /\ data' \in IF res = "Panic" THEN {data}
                       ELSE IF defined THEN {Store(data, b.offset, src)}
                       ELSE { d \in [1 .. Len(data) -> Byte] :
                                \A i \in 1 .. Len(data) :
                                   (i <= b.offset \/ i > b.offset + n)
                                       => d[i] = data[i] }
          /\ ret' = [op |-> "clone", res |-> res, pre |-> offset,
                     fits |-> MathEnd(offset, held.T, held.len) <= Len(data),
                     ptr |-> IF res = "Some" THEN b.offset ELSE 0,
                     len |-> held.len,
                     same |-> /\ res = "Some"
                              /\ b.offset + n <= Len(data)
                              /\ Read(data', b.offset, n) = src]
    /\ UNCHANGED <<overflow_checks, arenaGhost, track, pool, poolVars, returned, held,
                   threadVars, envVars>>

(* str::len() of the handle: Deref gives the whole inner slice as the str  *)
deref_len(h) == h.len

(* The text read through a string handle whose range is inside the region: *)
(* from_utf8_unchecked(&self.inner)                                        *)
deref(h) == Read(data, h.ptr, deref_len(h))

(* ArenaString::write_str: the test self.len() > s.len() *)
write_str_accepts(h, s) == deref_len(h) > Len(s)

(* ArenaString::write_str.  The slice inner[len .. len + s.len()] panics   *)
(* when its end exceeds inner.len (or wraps); a write that leaves the      *)
(* region is undefined: it faults or stores the bytes that are inside, and *)
(* the run stops as after a panic.                                         *)
(* ret records the result, whether s fitted the room left (room), whether  *)
(* the handle's length and bytes are as before the call (same) and whether *)
(* s stands at the old length and the length grew by len(s) (appended).    *)
write_str(s) ==
    /\ ~panicked
    /\ pool = "Arena"
    /\ track = "strings"
    /\ held.kind # "none"
    /\ \E e \in {WAdd(held.wlen, Len(s))} :
       \E res \in IF ~write_str_accepts(held, s) THEN {"Err"}
                  ELSE IF e.ovf \/ e.val > held.len THEN {"Panic"}
                  ELSE IF held.ptr + e.val <= Len(data) THEN {"Ok"}
                  ELSE {"Ok", "Panic"} :
          /\ panicked' = (res = "Panic" \/ (res = "Ok" /\ held.ptr + e.val > Len(data)))
          /\ data' = IF res = "Ok"
                     THEN Store(data, held.ptr + held.wlen, s) ELSE data
          /\ held' = IF res = "Ok"
                     THEN [held EXCEPT !.wlen = e.val,
                                       !.written = held.written \o s]
                     ELSE held
          /\ ret' = [op |-> "write_str", res |-> res,
                     room |-> held.wlen + Len(s) <= held.len,
                     same |-> held'.wlen = held.wlen /\ data' = data,
                     appended |-> /\ held'.wlen = held.wlen + Len(s)
                                  /\ held.ptr + held'.wlen <= Len(data)
                                  /\ Read(data', held.ptr + held.wlen, Len(s)) = s]
    /\ UNCHANGED <<offset, overflow_checks, arenaGhost, track, pool, poolVars,
                   returned, threadVars, envVars>>

(* The arena and a slice handle the caller keeps *)
InitSlices == InitArenaWith("slices")

NextSlices ==
    \/ \E T \in Types, len \in Counts : allocate(T, len)
    \/ \E T \in Types : \E value \in Values(T.size) : push(T, value)
    \/ \E T \in Types, len \in 0 .. MaxCount :
          \E values \in Values(T.size * len) : push_slice(T, len, values)
    \/ clear
    \/ clone

SpecSlices == InitSlices /\ [][NextSlices]_vars

(* The arena and a string handle the caller keeps *)
InitStrings == InitArenaWith("strings")

NextStrings ==
    \/ \E len \in Counts : allocate_string(len)
    \/ \E len \in 0 .. MaxCount : \E string \in Values(len) : push_string(string)
    \/ \E s \in Strs : write_str(s)
    \/ clear

SpecStrings == InitStrings /\ [][NextStrings]_vars

----------------------------------------------------------------------------
(* Pool<T> and StrPool.  Each owns a private Arena, modelled by data and   *)
(* offset.  Pool::intern and StrPool::intern call Arena::allocate::<u8>.   *)

(* The value type of Pool<T>: two bytes, as a pair of fields *)
PoolT == [size |-> 2, align |-> 1]
PoolValues == [1 .. PoolT.size -> {1, 2}]

(* The n bytes at address ptr *)
Least(S) == CHOOSE i \in S : \A j \in S : i <= j

(* A scan that never finds an entry *)
Pool_find_none(mem, lk, value) == 0

(* The scan of Pool::intern: the index of the first entry whose stored     *)
(* value equals value, or 0                                                *)
Pool_find(mem, lk, value) ==
    LET hits == { i \in 1 .. Len(lk) : Read(mem, lk[i].data, PoolT.size) = value }
    IN  IF hits = {} THEN 0 ELSE Least(hits)

(* A string scan that never finds an entry *)
StrPool_find_none(mem, lk, value) == 0

(* The scan of StrPool::intern: the length is compared before the bytes *)
StrPool_find(mem, lk, value) ==
    LET hits == { i \in 1 .. Len(lk) :
                    /\ lk[i].len = Len(value)
                    /\ Read(mem, lk[i].data, lk[i].len) = value }
    IN  IF hits = {} THEN 0 ELSE Least(hits)

(* The handles *)
Intern(ptr, gen) == [data |-> ptr, generation |-> gen]
StrIntern(ptr, len) == [data |-> ptr, len |-> len]

(* A clear that keeps the entry list *)
clear_lookup_kept(lk) == lk

(* lookup.clear() *)
clear_lookup(lk) == <<>>

Interned == { e.value : e \in first }
FirstOf(v) == (CHOOSE e \in first : e.value = v).h
Record(v, h) == IF v \in Interned THEN first ELSE first \cup {[value |-> v, h |-> h]}

(* An allocation made in units of a 2-byte, 2-aligned element *)
InternElem_wide == [size |-> 2, align |-> 2]

(* The element type of the allocation a miss makes: allocate(len) has no   *)
(* type annotation and its result is only used as a byte pointer, so the   *)
(* element is u8 and len counts bytes                                      *)
InternElem == U8

(* A handle stamped with generation 0 whatever the pool's generation is *)
NewHandle_unstamped(ptr, value) ==
    IF pool = "Pool" THEN Intern(ptr, 0) ELSE StrIntern(ptr, Len(value))

(* The handle a miss makes for value stored at address ptr *)
NewHandle(ptr, value) ==
    IF pool = "Pool" THEN Intern(ptr, generation) ELSE StrIntern(ptr, Len(value))

(* The bookkeeping of an intern call that returned h (out = "Some") or    *)
(* failed: the last call, the first handle of each value, whether an       *)
(* intern since the last clear returned None, and the handle the caller    *)
(* keeps                                                                   *)
InternLog(out, h, value, hit) ==
    /\ ret' = [op |-> "intern", res |-> out, h |-> h, value |-> value,
               hit |-> hit, pre |-> offset]
    /\ first' = IF track = "pool" /\ out = "Some" THEN Record(value, h) ELSE first
    /\ failed' = (failed \/ (track = "pool" /\ out = "None"))
    /\ returned' \in IF track = "returned" /\ out = "Some"
                     THEN {returned, {[h |-> h, value |-> value, stale |-> FALSE]}}
                     ELSE {returned}

(* A miss that records its entry although the allocation failed *)
intern_entries_always(lk, out, h) == Append(lk, h)

(* The entry list after a miss: allocate(..)? returns None before the push *)
intern_entries(lk, out, h) == IF out = "Some" THEN Append(lk, h) ELSE lk

(* intern: a hit returns entry i; a miss allocates n bytes, stores the     *)
(* value and appends its handle                                            *)
InternCall(value, i, n) ==
    IF i # 0
    THEN /\ InternLog("Some", lookup[i], value, TRUE)
         /\ UNCHANGED <<data, offset, panicked, lookup>>
    ELSE \E b \in {allocate_bump(offset, InternElem, n)} :
         \E out \in {Outcome(b, Len(data), overflow_checks)} :
            /\ panicked' = (out = "Panic")
            /\ offset' = IF out = "Some" THEN b.new_offset ELSE offset
            /\ data' = IF out = "Some" THEN Store(data, b.offset, value) ELSE data
            /\ lookup' = intern_entries(lookup, out, NewHandle(b.offset, value))
            /\ InternLog(out, IF out = "Some" THEN NewHandle(b.offset, value)
                              ELSE NewHandle(0, value), value, FALSE)

Pool_intern(value) ==
    /\ ~panicked
    /\ pool = "Pool"
    /\ InternCall(value, Pool_find(data, lookup, value), PoolT.size)
    /\ UNCHANGED <<overflow_checks, poolFrame, track, pool, generation>>

StrPool_intern(value) ==
    /\ ~panicked
    /\ pool = "StrPool"
    /\ InternCall(value, StrPool_find(data, lookup, value), Len(value))
    /\ UNCHANGED <<overflow_checks, poolFrame, track, pool, generation>>

(* The bookkeeping of a clear of a pool: the handle the caller keeps is   *)
(* from before the clear                                                   *)
ClearLog ==
    /\ ret' = [op |-> "clear", res |-> "Unit", pre |-> offset]
    /\ first' = {}
    /\ failed' = FALSE
    /\ returned' = { [e EXCEPT !.stale = TRUE] : e \in returned }

(* A clear that leaves the generation as it was *)
next_generation_same(gen) == gen

(* Pool::clear: self.generation += 1 *)
next_generation(gen) == gen + 1

Pool_clear ==
    /\ ~panicked
    /\ pool = "Pool"
    /\ generation < MaxClears
    /\ offset' = clear_offset(offset)
    /\ data' = clear_data(data)
    /\ lookup' = clear_lookup(lookup)
    /\ generation' = next_generation(generation)
    /\ ClearLog
    /\ UNCHANGED <<overflow_checks, panicked, poolFrame, track, pool>>

StrPool_clear ==
    /\ ~panicked
    /\ pool = "StrPool"
    /\ offset' = clear_offset(offset)
    /\ data' = clear_data(data)
    /\ lookup' = clear_lookup(lookup)
    /\ ClearLog
    /\ UNCHANGED <<overflow_checks, panicked, poolFrame, track, pool, generation>>

(* StrInterner of src/main.rs.  Its private Arena has the fields and the   *)
(* bump arithmetic of src/arena.rs (allocate_x is allocate); its handle is *)
(* StrIntern {str, len} and its entry list is strings, held in lookup.     *)
StrInterner_StrIntern(ptr, len) == [str |-> ptr, len |-> len]

(* the scan of StrInterner::intern: slice equality, 0 when no entry matches *)
StrInterner_find(mem, lk, s) ==
    LET hits == { i \in 1 .. Len(lk) :
                    /\ lk[i].len = Len(s)
                    /\ Read(mem, lk[i].str, lk[i].len) = s }
    IN  IF hits = {} THEN 0 ELSE Least(hits)

(* StrInterner::intern: a hit returns the entry; a miss unwraps the result *)
(* of allocate_x, so an arena without room panics                          *)
StrInterner_intern(s) ==
    /\ ~panicked
    /\ pool = "StrInterner"
    /\ \E i \in {StrInterner_find(data, lookup, s)} :
        IF i # 0
        THEN /\ InternLog("Some", lookup[i], s, TRUE)
             /\ UNCHANGED <<data, offset, panicked, lookup>>
        ELSE \E b \in {allocate_bump(offset, U8, Len(s))} :
             \E out \in {Outcome(b, Len(data), overflow_checks)} :
                /\ panicked' = (out # "Some")
                /\ offset' = IF out = "Some" THEN b.new_offset ELSE offset
                /\ data' = IF out = "Some" THEN Store(data, b.offset, s) ELSE data
                /\ lookup' = IF out = "Some"
                             THEN Append(lookup, StrInterner_StrIntern(b.offset, Len(s)))
                             ELSE lookup
                /\ InternLog(IF out = "Some" THEN "Some" ELSE "Panic",
                             StrInterner_StrIntern(b.offset, Len(s)), s, FALSE)
    /\ UNCHANGED <<overflow_checks, poolFrame, track, pool, generation>>

(* StrInterner::clear: arena.clear() and strings.set_len(0) *)
StrInterner_clear ==
    /\ ~panicked
    /\ pool = "StrInterner"
    /\ offset' = clear_offset(offset)
    /\ data' = clear_data(data)
    /\ lookup' = clear_lookup(lookup)
    /\ ClearLog
    /\ UNCHANGED <<overflow_checks, panicked, poolFrame, track, pool, generation>>

(* Pool::new / StrPool::new / StrInterner::new *)
InitPoolWith(t, kinds) ==
    /\ \E cap \in 0 .. MaxCap :
          /\ data = Arena_new(cap).data
          /\ offset = Arena_new(cap).offset
    /\ pool \in kinds
    /\ lookup = <<>>
    /\ generation = 0
    /\ overflow_checks \in BOOLEAN
    /\ panicked = FALSE
    /\ ret = NoRet
    /\ first = {}
    /\ handles = <<>>
    /\ clears = 0
    /\ demand = 0
    /\ failed = FALSE
    /\ ref_offset = 0
    /\ ref_res = NoRes
    /\ track = t
    /\ returned = {}
    /\ held = NoHeld
    /\ threads = NoThreads
    /\ interleaved = FALSE
    /\ mouse = Mouse_default
    /\ clock = Delta_new(0)

InitPool == InitPoolWith("pool", {"Pool", "StrPool"})

NextPool ==
    \/ \E value \in PoolValues : Pool_intern(value)
    \/ \E value \in Strs : StrPool_intern(value)
    \/ Pool_clear
    \/ StrPool_clear

SpecPool == InitPool /\ [][NextPool]_vars

(* Pool<T> with a handle the caller keeps across the calls *)
InitPoolReturned == InitPoolWith("returned", {"Pool"})

NextPoolReturned ==
    \/ \E value \in PoolValues : Pool_intern(value)
    \/ Pool_clear

SpecPoolReturned == InitPoolReturned /\ [][NextPoolReturned]_vars

(* The string interners with a handle the caller keeps across the calls *)
InitStrReturned == InitPoolWith("returned", {"StrPool", "StrInterner"})

NextStrReturned ==
    \/ \E value \in Strs : StrPool_intern(value)
    \/ StrPool_clear
    \/ \E s \in Strs : StrInterner_intern(s)
    \/ StrInterner_clear

SpecStrReturned == InitStrReturned /\ [][NextStrReturned]_vars

(* Pool::len, StrPool::len; occupied() is the arena's *)
len == Len(lookup)

----------------------------------------------------------------------------
(* The mesh builders of src/draw/mod.rs.  A view (ArenaView<T>) is what    *)
(* Arena::allocate returns; the model keeps a view's elements as a         *)
(* sequence and a vertex attribute array as the sequence of its vertices.  *)
(* Steps and indices are u32, modelled as unsigned words of U32Bits bits;  *)
(* element counts are u32 values cast to usize, far below the width of     *)
(* usize, so the usize arithmetic of allocate does not wrap here.          *)

U32Bits == 3          \* width of u32 in the model
MaxDrawBlocks == 16   \* largest capacity of the arena of a mesh, in 16-byte blocks

U32Mod == 2 ^ U32Bits
U32 == 0 .. U32Mod - 1
DrawCaps == { 16 * k : k \in 0 .. MaxDrawBlocks }

(* a + b and a * b on u32: the wrapped value and whether it overflowed *)
UAdd(a, b) == [val |-> (a + b) % U32Mod, ovf |-> a + b >= U32Mod]
UMul(a, b) == [val |-> (a * b) % U32Mod, ovf |-> a * b >= U32Mod]

(* size_of and align_of of the element types (glam, scalar layout) *)
TVec3 == [size |-> 12, align |-> 4]
TVec2 == [size |-> 8, align |-> 4]
TU32 == [size |-> 4, align |-> 4]
TVec2u == [size |-> 8, align |-> 4]
TVec3u == [size |-> 12, align |-> 4]
TVec4u == [size |-> 16, align |-> 4]

(* Arena::allocate::<T>(len) at cursor cur in a region of cap bytes: the   *)
(* result and the cursor after the call                                    *)
view_allocate(cur, cap, T, count) ==
    LET off == RoundUp(cur, T.align)
        b   == [offset |-> off, new_offset |-> off + T.size * count, ovf |-> FALSE]
        out == Outcome(b, cap, FALSE)
    IN  [res |-> out, cur |-> IF out = "Some" THEN b.new_offset ELSE cur]

(* A run of allocate(..)? calls: reqs is the sequence of <<T, len>>; the   *)
(* first call that does not return Some ends the run with its result      *)
RECURSIVE view_allocate_all(_, _, _)
view_allocate_all(cur, cap, reqs) ==
    IF reqs = <<>> THEN [res |-> "Some", cur |-> cur]
    ELSE LET a == view_allocate(cur, cap, Head(reqs)[1], Head(reqs)[2])
         IN  IF a.res = "Some" THEN view_allocate_all(a.cur, cap, Tail(reqs))
             ELSE a

NoMesh == [positions |-> <<>>, normals |-> <<>>, texcoords |-> <<>>,
           kind |-> "Point", elements |-> <<>>]

(* VertexData::len, VertexData::is_valid *)
Mesh_len(m) == Len(m.positions)
Mesh_is_valid(m) ==
    Len(m.normals) = Mesh_len(m) /\ Len(m.texcoords) = Mesh_len(m)

(* The last value written at 0-based index i by a loop whose writes are the *)
(* sequence ws of [index, value]; fresh where the loop wrote nothing        *)
RECURSIVE LastWrite(_, _, _)
LastWrite(ws, i, fresh) ==
    IF ws = <<>> THEN fresh
    ELSE IF ws[Len(ws)].index = i THEN ws[Len(ws)].value
         ELSE LastWrite(SubSeq(ws, 1, Len(ws) - 1), i, fresh)

(* The writes of make_quads' loops in program order, for the wrapped       *)
(* values sx1 = steps.x + 1 and sy1 = steps.y + 1                          *)
quads_vertex_writes(sx1, sy1) ==
    [k \in 1 .. sx1 * sy1 |->
        LET y == (k - 1) \div sx1
            x == (k - 1) % sx1
        IN  [index |-> (y * sx1 + x) % U32Mod, value |-> <<x, y>>]]

quads_element_writes(sx, sy, sx1) ==
    [k \in 1 .. sx * sy |->
        LET y == (k - 1) \div sx
            x == (k - 1) % sx
        IN  [index |-> (y * sx + x) % U32Mod,
             value |-> << (y * sx1 + x) % U32Mod,
                          (y * sx1 + x + 1) % U32Mod,
                          ((y + 1) * sx1 + x + 1) % U32Mod,
                          ((y + 1) * sx1 + x) % U32Mod >>]]

(* make_quads(arena, steps, ..) at cursor cur: [res, cur, mesh].  The      *)
(* counts are computed in u32: an overflow panics in a build that checks   *)
(* it and wraps otherwise; an index outside a view panics.  stale is what  *)
(* an element the loops did not write holds.                               *)
make_quads_result(cur, cap, checks, sx, sy, stale) ==
    LET ax  == UAdd(sx, 1)
        ay  == UAdd(sy, 1)
        nv  == UMul(ax.val, ay.val)
        nq  == UMul(sx, sy)
        al  == view_allocate_all(cur, cap, << <<TVec3, nv.val>>, <<TVec3, nv.val>>,
                                            <<TVec2, nv.val>>, <<TVec4u, nq.val>> >>)
        vw  == quads_vertex_writes(ax.val, ay.val)
        qw  == quads_element_writes(sx, sy, ax.val)
        verts == [i \in 1 .. nv.val |-> LastWrite(vw, i - 1, <<0, 0>>)]
    IN  IF checks /\ (ax.ovf \/ ay.ovf \/ nv.ovf)
        THEN [res |-> "Panic", cur |-> cur, mesh |-> NoMesh]
        ELSE IF al.res # "Some"
        THEN [res |-> al.res, cur |-> al.cur, mesh |-> NoMesh]
        ELSE IF \/ \E k \in 1 .. Len(vw) : vw[k].index >= nv.val
                \/ \E k \in 1 .. Len(qw) : qw[k].index >= nq.val
        THEN [res |-> "Panic", cur |-> al.cur, mesh |-> NoMesh]
        ELSE [res |-> "Some", cur |-> al.cur,
              mesh |-> [positions |-> verts, normals |-> verts, texcoords |-> verts,
                        kind |-> "Quad",
                        elements |-> [i \in 1 .. nq.val |->
                                         LastWrite(qw, i - 1, <<stale, stale, stale, stale>>)]]]

(* The bookkeeping of a call of a mesh builder *)
DrawCall(op, r, args) ==
    /\ ~panicked
    /\ pool = "Arena"
    /\ track = "draw"
    /\ panicked' = (r.res = "Panic")
    /\ offset' = r.cur
    /\ ret' = [op |-> op, res |-> r.res, pre |-> offset, args |-> args, mesh |-> r.mesh]
    /\ UNCHANGED <<data, overflow_checks, arenaGhost, track, pool, poolVars, returned,
                   held, threadVars, envVars>>

make_quads(sx, sy) ==
    /\ track = "draw"
    /\ ret.op \in {"new", "clear"}
    /\ \E stale \in {0, U32Mod - 1} :
          DrawCall("make_quads",
                   make_quads_result(offset, Len(data), overflow_checks, sx, sy, stale),
                   <<sx, sy>>)

(* The inputs of merge_meshes: meshes of up to MaxVerts vertices and up to  *)
(* MaxElems elements whose indices are below the vertex count.  A vertex   *)
(* is its position in its mesh; an element is the tuple of its indices     *)
(* (a point index is a 1-tuple).                                           *)
MaxMeshes == 2
MaxVerts == 2
MaxElems == 1

ElementTypes == {"Point", "Line", "Triangle", "Quad"}
Arity(kind) == CASE kind = "Point" -> 1 [] kind = "Line" -> 2
                 [] kind = "Triangle" -> 3 [] OTHER -> 4
ElemT(kind) == CASE kind = "Point" -> TU32 [] kind = "Line" -> TVec2u
                 [] kind = "Triangle" -> TVec3u [] OTHER -> TVec4u

IndexTuples(kind, n) ==
    { [c \in 1 .. Arity(kind) |-> (i + c - 1) % n] : i \in 0 .. n - 1 }
SeqsUpTo(S, n) == UNION { [1 .. k -> S] : k \in 0 .. n }
MeshInputs(kind) ==
    UNION { { [positions |-> [i \in 1 .. n |-> i], normals |-> [i \in 1 .. n |-> i],
               texcoords |-> [i \in 1 .. n |-> i], kind |-> kind, elements |-> es] :
              es \in SeqsUpTo(IndexTuples(kind, n), MaxElems) } : n \in 0 .. MaxVerts }
MeshLists == UNION { SeqsUpTo(MeshInputs(kind), MaxMeshes) : kind \in ElementTypes }

RECURSIVE SumSeq(_)
SumSeq(ns) == IF ns = <<>> THEN 0 ELSE Head(ns) + SumSeq(Tail(ns))

(* meshes.iter().map(..).sum() of the element counts and of the vertex counts *)
element_count(meshes) == SumSeq([k \in 1 .. Len(meshes) |-> Len(meshes[k].elements)])
vertex_count(meshes) == SumSeq([k \in 1 .. Len(meshes) |-> Mesh_len(meshes[k])])

(* Every component of every element of es increased by d, in u32 *)
AddToAll(es, d) ==
    [val |-> [i \in 1 .. Len(es) |->
                [c \in 1 .. Len(es[i]) |-> UAdd(es[i][c], d).val]],
     ovf |-> \E i \in 1 .. Len(es) : \E c \in 1 .. Len(es[i]) : UAdd(es[i][c], d).ovf]

(* dst with src copied to the 0-based positions at .. at + len(src) *)
CopyAt(dst, at, src) ==
    [i \in 1 .. Len(dst) |->
        IF i > at /\ i <= at + Len(src) THEN src[i - at] ELSE dst[i]]

(* One pass of merge_meshes' loop over the source mesh m.  st holds the    *)
(* views being filled, index_offset, vertex_offset and whether the loop    *)
(* has panicked.  A point mesh is copied as it is and, after the first     *)
(* mesh, index_offset is added to every point of the view; the elements of *)
(* the other types are written with vertex_offset added and, after the     *)
(* first mesh, vertex_offset is added to every element of the view.        *)
merge_mesh_step(st, m, element_type, checks) ==
    LET vo == st.vertex_offset % U32Mod
        io == st.index_offset % U32Mod
        src == IF element_type = "Point"
               THEN [val |-> m.elements, ovf |-> FALSE]
               ELSE AddToAll(m.elements, vo)
        put == CopyAt(st.elements, st.index_offset, src.val)
        all == IF st.index_offset > 0
               THEN AddToAll(put, IF element_type = "Point" THEN io ELSE vo)
               ELSE [val |-> put, ovf |-> FALSE]
        bad == \/ checks /\ (src.ovf \/ all.ovf)
               \/ Len(m.normals) # Mesh_len(m)
               \/ Len(m.texcoords) # Mesh_len(m)
    IN  IF st.panic \/ bad THEN [st EXCEPT !.panic = TRUE]
        ELSE [elements |-> all.val,
              positions |-> CopyAt(st.positions, st.vertex_offset, m.positions),
              normals |-> CopyAt(st.normals, st.vertex_offset, m.normals),
              texcoords |-> CopyAt(st.texcoords, st.vertex_offset, m.texcoords),
              index_offset |-> st.index_offset + Len(m.elements),
              vertex_offset |-> st.vertex_offset + Mesh_len(m),
              panic |-> FALSE]

RECURSIVE merge_mesh_loop(_, _, _, _)
merge_mesh_loop(st, meshes, element_type, checks) ==
    IF meshes = <<>> THEN st
    ELSE merge_mesh_loop(merge_mesh_step(st, Head(meshes), element_type, checks),
                         Tail(meshes), element_type, checks)

(* merge_meshes(arena, meshes, element_type) at cursor cur: [res, cur, mesh] *)
merge_meshes_result(cur, cap, checks, meshes, element_type, stale) ==
    LET ec == element_count(meshes)
        vc == vertex_count(meshes)
        al == view_allocate_all(cur, cap, << <<ElemT(element_type), ec>>, <<TVec3, vc>>,
                                            <<TVec3, vc>>, <<TVec2, vc>> >>)
        st == merge_mesh_loop(
                  [elements |-> [i \in 1 .. ec |->
                                    [c \in 1 .. Arity(element_type) |-> stale]],
                   positions |-> [i \in 1 .. vc |-> 0],
                   normals |-> [i \in 1 .. vc |-> 0],
                   texcoords |-> [i \in 1 .. vc |-> 0],
                   index_offset |-> 0, vertex_offset |-> 0, panic |-> FALSE],
                  meshes, element_type, checks)
    IN  IF \/ meshes = <<>>
           \/ \E k \in 1 .. Len(meshes) : meshes[k].kind # element_type
           \/ ec = 0
           \/ vc = 0
        THEN [res |-> "None", cur |-> cur, mesh |-> NoMesh]
        ELSE IF al.res # "Some"
        THEN [res |-> al.res, cur |-> al.cur, mesh |-> NoMesh]
        ELSE IF st.panic
        THEN [res |-> "Panic", cur |-> al.cur, mesh |-> NoMesh]
        ELSE [res |-> "Some", cur |-> al.cur,
              mesh |-> [positions |-> st.positions, normals |-> st.normals,
                        texcoords |-> st.texcoords, kind |-> element_type,
                        elements |-> st.elements]]

merge_meshes(meshes, element_type) ==
    /\ track = "draw"
    /\ ret.op \in {"new", "clear"}
    /\ \E stale \in {0, U32Mod - 1} :
          DrawCall("merge_meshes",
                   merge_meshes_result(offset, Len(data), overflow_checks, meshes,
                                       element_type, stale),
                   <<meshes, element_type>>)

(* The inputs of quads_to_triangles: views of up to MaxQuads quads, with   *)
(* z = w (a triangle stored as a quad) and with z # w                      *)
MaxQuads == 2
QuadInputs == SeqsUpTo({ <<0, 1, 2, 3>>, <<0, 1, 2, 2>>, <<1, 1, 1, 1>> }, MaxQuads)

(* The assignments of quads_to_triangles' loop in program order: one       *)
(* triangle (x, y, w) per quad and, when z # w, the triangle (z, w, y)     *)
RECURSIVE triangle_writes(_, _)
triangle_writes(quads, triangle_count) ==
    IF quads = <<>> THEN <<>>
    ELSE LET q == Head(quads)
             one == << [index |-> triangle_count, value |-> <<q[1], q[2], q[4]>>] >>
             two == IF q[3] # q[4]
                    THEN << [index |-> triangle_count + 1,
                             value |-> <<q[3], q[4], q[2]>>] >>
                    ELSE <<>>
         IN  one \o two \o triangle_writes(Tail(quads), triangle_count + Len(one \o two))

(* quads_to_triangles(arena, quads) at cursor cur: [res, cur, mesh]; the   *)
(* returned view is the whole allocation of quads.len() * 2 triangles      *)
quads_to_triangles_result(cur, cap, quads, stale) ==
    LET n  == Len(quads) * 2
        al == view_allocate(cur, cap, TVec3u, n)
        ws == triangle_writes(quads, 0)
    IN  IF al.res # "Some"
        THEN [res |-> al.res, cur |-> al.cur, mesh |-> NoMesh]
        ELSE [res |-> "Some", cur |-> al.cur,
              mesh |-> [NoMesh EXCEPT
                          !.kind = "Triangle",
                          !.elements = [i \in 1 .. n |->
                                           LastWrite(ws, i - 1, <<stale, stale, stale>>)]]]

(* quads_to_triangles of a view given by the caller *)
quads_to_triangles(quads) ==
    /\ track = "draw"
    /\ ret.op \in {"new", "clear"}
    /\ \E stale \in {0, U32Mod - 1} :
          DrawCall("quads_to_triangles",
                   quads_to_triangles_result(offset, Len(data), quads, stale),
                   <<quads>>)

(* quads_to_triangles of the quads of the mesh make_quads has just returned *)
quads_to_triangles_of_mesh ==
    /\ track = "draw"
    /\ ret.op = "make_quads"
    /\ ret.res = "Some"
    /\ \E stale \in {0, U32Mod - 1} :
          DrawCall("quads_to_triangles",
                   quads_to_triangles_result(offset, Len(data), ret.mesh.elements, stale),
                   <<ret.mesh.elements>>)

InitDraw ==
    /\ \E cap \in DrawCaps :
          /\ data = Arena_new(cap).data
          /\ offset = Arena_new(cap).offset
    /\ overflow_checks \in BOOLEAN
    /\ panicked = FALSE
    /\ ret = NoRet
    /\ handles = <<>>
    /\ clears = 0
    /\ demand = 0
    /\ failed = FALSE
    /\ ref_offset = 0
    /\ ref_res = NoRes
    /\ track = "draw"
    /\ pool = "Arena"
    /\ lookup = <<>>
    /\ generation = 0
    /\ first = {}
    /\ returned = {}
    /\ held = NoHeld
    /\ threads = NoThreads
    /\ interleaved = FALSE
    /\ mouse = Mouse_default
    /\ clock = Delta_new(0)

NextDraw ==
    \/ \E sx \in U32, sy \in U32 : make_quads(sx, sy)
    \/ \E meshes \in MeshLists, element_type \in ElementTypes :
          merge_meshes(meshes, element_type)
    \/ \E quads \in QuadInputs : quads_to_triangles(quads)
    \/ quads_to_triangles_of_mesh
    \/ clear

SpecDraw == InitDraw /\ [][NextDraw]_vars

----------------------------------------------------------------------------
(* The input state of src/env: the Mouse with its three Buttons and its    *)
(* position, and the Clock's Delta.  Positions are pairs of whole          *)
(* coordinates and the clock counts ticks.                                 *)

MaxCoord == 1       \* largest coordinate of a mouse position
MaxTicks == 1       \* largest time the clock reads

Positions == (0 .. MaxCoord) \X (0 .. MaxCoord)
MouseButtons == {"Left", "Right", "Middle", "Other"}

envFrame == <<data, offset, overflow_checks, panicked, arenaGhost, track, pool,
              poolVars, returned, held, threadVars>>

(* The Button of the mouse that button names; Other names none *)
Mouse_button(m, button) ==
    CASE button = "Left" -> m.left_button
      [] button = "Right" -> m.right_button
      [] button = "Middle" -> m.middle_button
      [] OTHER -> Button_default

(* Mouse::update_button: any other button returns without a change *)
Mouse_update_button(button, down) ==
    /\ track = "env"
    /\ mouse' = CASE button = "Left" ->
                       [mouse EXCEPT !.left_button = Button_update(@, down)]
                  [] button = "Right" ->
                       [mouse EXCEPT !.right_button = Button_update(@, down)]
                  [] button = "Middle" ->
                       [mouse EXCEPT !.middle_button = Button_update(@, down)]
                  [] OTHER -> mouse
    /\ ret' = [op |-> "update_button", button |-> button, down |-> down,
               before |-> Mouse_button(mouse, button)]
    /\ UNCHANGED <<envFrame, clock>>

(* Mouse::update_position: value is the position before the call *)
Mouse_update_position(position) ==
    /\ track = "env"
    /\ \E value \in {mouse.position.value} :
          /\ mouse' = [mouse EXCEPT !.position = [value |-> position,
                                                  delta |-> Vec2_sub(value, position)]]
          /\ ret' = [op |-> "update_position", p |-> position, q |-> value]
    /\ UNCHANGED <<envFrame, clock>>

(* Clock::update: the monotonic time read is not below the last one *)
Clock_update(current) ==
    /\ track = "env"
    /\ current >= clock.value
    /\ clock' = Delta_update(clock, current)
    /\ ret' = [op |-> "clock_update", p |-> current, q |-> clock.value]
    /\ UNCHANGED <<envFrame, mouse>>

InitEnv ==
    /\ data = Arena_new(0).data
    /\ offset = Arena_new(0).offset
    /\ overflow_checks \in BOOLEAN
    /\ panicked = FALSE
    /\ ret = NoRet
    /\ handles = <<>>
    /\ clears = 0
    /\ demand = 0
    /\ failed = FALSE
    /\ ref_offset = 0
    /\ ref_res = NoRes
    /\ track = "env"
    /\ pool = "Arena"
    /\ lookup = <<>>
    /\ generation = 0
    /\ first = {}
    /\ returned = {}
    /\ held = NoHeld
    /\ threads = NoThreads
    /\ interleaved = FALSE
    /\ mouse = Mouse_default
    /\ clock = Delta_new(0)

NextEnv ==
    \/ \E button \in MouseButtons, down \in BOOLEAN : Mouse_update_button(button, down)
    \/ \E position \in Positions : Mouse_update_position(position)
    \/ \E current \in 0 .. MaxTicks : Clock_update(current)

SpecEnv == InitEnv /\ [][NextEnv]_vars

----------------------------------------------------------------------------
(* Claims about the arena *)

AllocRet == ret.op = "alloc"

(* C1: capacity conservation.  Whenever the cumulative aligned size of the *)
(* calls made since construction or the last clear() is <= the capacity,   *)
(* every one of those calls returned a handle and occupied() equals that   *)
(* cumulative size.                                                        *)
C1_CapacityConservation ==
    demand <= size => (~failed /\ occupied = demand)

(* C2: exhaustion boundary.  A call whose aligned end offset                *)
(* round_up(cursor, align) + count * size exceeds the capacity returns     *)
(* None and leaves occupied() as it was before the call.                   *)
C2_ExhaustionBoundary ==
    (AllocRet /\ ~ret.fits) => (ret.res = "None" /\ occupied = ret.pre)

(* C3: allocation failure is only ever an absent result: no call of        *)
(* allocate, allocate_string, push, push_slice or push_string panics.      *)
C3_NeverPanics ==
    ~panicked

(* C4: non-overlap.  The byte ranges [aligned, new_cursor) of any two      *)
(* handles returned since the last clear() are disjoint.                   *)
Disjoint(a, b) ==
    \/ a.lo >= a.hi
    \/ b.lo >= b.hi
    \/ a.hi <= b.lo
    \/ b.hi <= a.lo

C4_NonOverlap ==
    \A i, j \in 1 .. Len(handles) :
        (i < j /\ handles[i].epoch = clears /\ handles[j].epoch = clears)
            => Disjoint(handles[i], handles[j])

(* C5: reset restores a fresh arena.  Directly after clear() occupied()    *)
(* is 0, and every call made after a clear() has the same result, the same *)
(* returned offset and the same resulting cursor as that call made on an   *)
(* arena newly constructed with the same capacity at the time of the clear.*)
C5_ResetRestoresFresh ==
    ref_res.since = "clear" =>
        /\ occupied = ref_offset
        /\ ret.op = "clear" => occupied = 0
        /\ AllocRet => (ret.res = ref_res.res /\ ret.ptr = ref_res.ptr)

(* C5 witness: an arena that was cleared has been filled to is_full again *)
C5_Witness ==
    /\ ref_res.since = "clear"
    /\ AllocRet /\ ret.res = "Some"
    /\ size >= 2 /\ is_full

(* C6: reset invalidation.  A query on the handle reports every handle     *)
(* created before the last clear() invalid and every handle created after  *)
(* it valid.  A query reads the arena and the handle's fields, so it gives *)
(* one answer for two handles whose fields are equal: the claim requires   *)
(* that no stale handle has the fields of a live one (stated here for the  *)
(* handles that own at least one byte).                                    *)
C6_StaleDetectable ==
    \A i, j \in 1 .. Len(handles) :
        (/\ handles[i].epoch < clears /\ handles[i].lo < handles[i].hi
         /\ handles[j].epoch = clears /\ handles[j].lo < handles[j].hi)
            => handles[i].h # handles[j].h

----------------------------------------------------------------------------
(* Claims about Pool<T> and StrPool *)

InternRet == ret.op = "intern"

RECURSIVE SumLen(_)
SumLen(S) ==
    IF S = {} THEN 0
    ELSE LET v == CHOOSE x \in S : TRUE IN Len(v) + SumLen(S \ {v})

(* C7: interning identity.  With no clear() in between, every successful   *)
(* intern(v) returns the handle (the same address) that the first          *)
(* successful intern(v) returned.                                          *)
C7_InternIdentity ==
    (InternRet /\ ret.res = "Some") =>
        /\ ret.h = FirstOf(ret.value)
        /\ ret.h.data = FirstOf(ret.value).data

(* C7 witness: the value interned first is interned again in a Pool<T>     *)
(* that holds two values                                                   *)
C7_Witness ==
    /\ pool = "Pool" /\ InternRet /\ ret.res = "Some" /\ ret.hit
    /\ len = 2 /\ ret.h = lookup[1]

(* C8: interning distinctness.  The handles of two different values        *)
(* interned with no clear() in between have different addresses.           *)
C8_InternDistinct ==
    \A e1, e2 \in first :
        e1.value # e2.value => e1.h.data # e2.h.data

(* C9: len() is the number of distinct values interned successfully since  *)
(* the last clear(); interning a present value again leaves that set, and  *)
(* so len(), as it was.                                                    *)
C9_LenCountsDistinct ==
    len = Cardinality(Interned)

(* C9 witness: a present string is interned again in a StrPool of two *)
C9_Witness ==
    /\ pool = "StrPool" /\ InternRet /\ ret.res = "Some" /\ ret.hit
    /\ len = 2 /\ Cardinality(Interned) = 2

(* C10: no duplicate storage.  occupied() of a StrPool is the sum of the   *)
(* byte lengths of the distinct strings interned since the last clear().   *)
C10_NoDuplicateStorage ==
    pool = "StrPool" => occupied = SumLen(Interned)

(* C10 witness: two 2-byte strings are stored once each, and one of them   *)
(* has been interned again                                                 *)
C10_Witness ==
    /\ pool = "StrPool" /\ InternRet /\ ret.hit
    /\ occupied = 4 /\ \A v \in Interned : Len(v) = 2

(* C11: in every reachable state of Pool<T>, occupied() is                 *)
(* len() * size_of(T): each distinct value takes exactly size_of(T) bytes, *)
(* with no padding and no size_of(T) * size_of(T).                         *)
C11_PoolOccupied ==
    pool = "Pool" => occupied = len * PoolT.size

(* C11 witness: a Pool<T> holding two values in 2 * size_of(T) bytes *)
C11_Witness ==
    /\ pool = "Pool" /\ len = 2 /\ occupied = 2 * PoolT.size
    /\ InternRet /\ ret.res = "Some" /\ ~ret.hit

(* C12: pool reset is all-or-nothing.  Directly after clear() of a Pool<T> *)
(* or a StrPool both len() and occupied() are 0.                           *)
C12_ClearResetsBoth ==
    ret.op = "clear" => (len = 0 /\ occupied = 0)

(* C12 witness: a pool that held bytes has just been cleared *)
C12_Witness ==
    /\ pool \in {"Pool", "StrPool"} /\ ret.op = "clear" /\ ret.pre >= 2
    /\ len = 0 /\ occupied = 0

(* C13: Pool<T> staleness is detectable.  A handle returned by             *)
(* Pool::intern before a clear() never compares equal to a handle returned *)
(* by Pool::intern after that clear(), also when both have the same        *)
(* address and the same value.                                             *)
C13_PoolStaleDetectable ==
    (pool = "Pool" /\ InternRet /\ ret.res = "Some") =>
        \A a \in returned : a.stale => a.h # ret.h

(* C13 witness: the value of a handle kept from before a clear() has been  *)
(* interned again at the same address                                      *)
C13_Witness ==
    /\ pool = "Pool" /\ InternRet /\ ret.res = "Some"
    /\ \E a \in returned :
          /\ a.stale
          /\ a.value = ret.value
          /\ a.h.data = ret.h.data

(* C14: string-pool staleness is detectable.  A handle returned by         *)
(* StrPool::intern (or by StrInterner::intern of main.rs) before a clear() *)
(* never compares equal to a handle returned by intern after that clear(), *)
(* for every pair of strings interned before and after (stated here for    *)
(* the non-empty strings).                                                 *)
C14_StrStaleDetectable ==
    (pool \in {"StrPool", "StrInterner"} /\ InternRet /\ ret.res = "Some") =>
        \A a \in returned :
            (a.stale /\ Len(a.value) > 0 /\ Len(ret.value) > 0) => a.h # ret.h

----------------------------------------------------------------------------
(* Claims about overflow and about the handles a caller keeps *)

(* C15: overflow is a failure.  A call whose count * size_of(T), or whose  *)
(* aligned offset plus that size, does not fit in the machine word returns *)
(* None and leaves the cursor unchanged: it neither succeeds with a        *)
(* wrapped size nor panics.                                                *)
C15_OverflowFails ==
    (AllocRet /\ ret.ovf) => (ret.res = "None" /\ occupied = ret.pre)

(* C16: clone is a deep copy inside the same arena.  When the arena has    *)
(* room, cloning a handle of n elements advances occupied() by the aligned *)
(* size of n elements and returns a handle of length n whose byte range is *)
(* disjoint from the original's and whose contents equal the original's    *)
(* contents at the time of the clone.                                      *)
C16_CloneDeepCopy ==
    (ret.op = "clone" /\ ret.fits) =>
        /\ ret.res = "Some"
        /\ occupied = MathEnd(ret.pre, held.T, held.len)
        /\ ret.len = held.len
        /\ ~Overlap(ret.ptr, held.ptr, held.len * held.T.size)
        /\ ret.same

(* C17: push round-trip.  A handle returned by push(value) has length 1    *)
(* and reads back value, a handle returned by push_slice(values) has       *)
(* length values.len() and reads back values, and this stays so over every *)
(* later successful or failed allocation until clear() (stated for the    *)
(* program that has not stopped).                                          *)
C17_PushRoundTrip ==
    (held.kind \in {"push", "push_slice"} /\ ~panicked) =>
        /\ held.len * held.T.size = Len(held.text)
        /\ InRegion(held)
        /\ Read(data, held.ptr, Len(held.text)) = held.text

(* C18: bytes written by push_string are immutable.  No write_str on a     *)
(* handle returned by push_string(text) changes a byte of the text: the    *)
(* handle keeps reading back text.                                         *)
C18_PushStringImmutable ==
    (ret.op = "write_str" /\ held.kind = "push_string") =>
        (ret.same \/ Read(data, held.ptr, held.len) = held.text)

(* C19: append fails cleanly.  For a handle of allocate_string with        *)
(* capacity c and written length l, write_str(s) with l + len(s) > c       *)
(* returns an error without panicking and leaves the written length and    *)
(* the bytes unchanged, after every sequence of appends.                   *)
C19_AppendFailsCleanly ==
    (ret.op = "write_str" /\ held.kind = "allocate_string" /\ ~ret.room) =>
        (ret.res = "Err" /\ ret.same)

(* C20: append is capacity-bounded.  For a handle of allocate_string with  *)
(* capacity c and written length l, write_str(s) succeeds whenever         *)
(* l + len(s) <= c (len(s) = c on an empty handle included), writes s at   *)
(* the positions [l, l + len(s)) and sets the written length to            *)
(* l + len(s).                                                             *)
C20_AppendCapacityBounded ==
    (ret.op = "write_str" /\ held.kind = "allocate_string" /\ ret.room) =>
        (ret.res = "Ok" /\ ret.appended)

----------------------------------------------------------------------------
(* Claims about the frame of clear and intern, and about the invariants *)

(* C21: clear() does not touch memory.  An arena newly constructed is all  *)
(* zero; clear() changes only the cursor, every byte of the region holds   *)
(* after it the value it held before, and an allocate, which stores        *)
(* nothing, leaves the bytes of its range as they were.                    *)
C21_ClearKeepsMemory ==
    /\ \A i \in 1 .. Len(data) : data[i] = 0
    /\ [][ret'.op = "clear" => data' = data]_vars

(* C21 witness: after a clear() the region still holds bytes of a push,    *)
(* and a later call of the new generation was given a range over them      *)
C21_Witness ==
    /\ pool = "Arena"
    /\ ref_res.since = "clear"
    /\ AllocRet /\ ret.res = "Some" /\ ret.ptr = 0
    /\ \E i \in 2 .. Len(data) : data[i] # 0

(* The bytes a value takes in its pool *)
NeedBytes(v) == IF pool = "Pool" THEN PoolT.size ELSE Len(v)

(* C22: an intern hit has no effect.  When intern(v) is called on Pool<T>  *)
(* or StrPool and v was interned since the last clear(), the call leaves   *)
(* len(), occupied(), the entry list, the generation and every stored byte *)
(* unchanged, also when the pool's arena is full.                          *)
C22_HitNoEffect ==
    [][(ret'.op = "intern" /\ ret'.value \in Interned)
          => (/\ ret'.res = "Some"
              /\ UNCHANGED <<lookup, offset, generation, data>>)]_vars

(* C22 witness: a hit on a pool whose arena is full *)
C22_Witness ==
    /\ InternRet /\ ret.hit /\ ret.res = "Some"
    /\ ret.value \in Interned
    /\ size > 0 /\ is_full

(* C23: an intern miss that cannot be stored has no effect.  When          *)
(* Pool::intern or StrPool::intern is called with a value not yet present  *)
(* and the arena lacks the bytes for it, the call returns None without     *)
(* panicking, records no entry and leaves len(), occupied() and the        *)
(* generation unchanged; a later intern of a smaller new value can still   *)
(* succeed (the witness).                                                  *)
C23_MissNoEffect ==
    [][(/\ ret'.op = "intern" /\ ~ret'.hit
        /\ offset + NeedBytes(ret'.value) > Len(data))
          => (/\ ret'.res = "None" /\ ~panicked'
              /\ UNCHANGED <<lookup, offset, generation>>)]_vars

(* C23 witness: after an intern that returned None, an intern of a new     *)
(* value succeeded before any clear()                                      *)
C23_Witness ==
    /\ failed
    /\ InternRet /\ ~ret.hit /\ ret.res = "Some"
    /\ len >= 2

(* C24: interned addresses are stable until reset.  Once intern(v) has     *)
(* returned handle h, then after any further intern calls (hits, misses,   *)
(* failures) and before the next clear(), h is still an entry of the pool  *)
(* and the bytes at its address still equal v.                             *)
C24_AddressesStable ==
    \A e \in first :
        /\ \E i \in 1 .. len : lookup[i] = e.h
        /\ Read(data, e.h.data, NeedBytes(e.value)) = e.value

(* C24 witness: two values are interned, an intern has failed since, and   *)
(* the last call was a hit                                                 *)
C24_Witness ==
    /\ Cardinality(first) >= 2
    /\ failed
    /\ InternRet /\ ret.hit

(* C25: cursor invariant.  In every reachable arena state                  *)
(* 0 <= occupied() <= size(), size() is the capacity given at              *)
(* construction, the byte range of every returned handle lies inside       *)
(* [0, size()), and occupied() does not decrease between two clears.       *)
C25_CursorInvariant ==
    /\ [](/\ 0 <= occupied /\ occupied <= size
          /\ AllocRet => occupied >= ret.pre
          /\ (AllocRet /\ ret.res = "Some") => ret.fits)
    /\ [][Len(data') = Len(data)]_vars

(* C26: alignment arithmetic.  For every cursor value and every alignment, *)
(* the start offset (cursor + a - 1) & !(a - 1) is the least multiple of a *)
(* that is >= cursor, and on success the new cursor is exactly that offset *)
(* plus count * size_of(T).                                                *)
C26_AlignmentArithmetic ==
    AllocRet =>
        /\ ret.aligned
        /\ ret.res = "Some" => ret.exact

(* C27: push and push_slice refine allocate.  From every arena state,      *)
(* push::<T>(v) has the success or failure, the returned offset and the    *)
(* resulting cursor of allocate::<T>(1), and push_slice::<T>(vs) those of  *)
(* allocate::<T>(vs.len()).                                                *)
C27_PushRefinesAllocate ==
    \A T \in Types :
        /\ push_bump(offset, T) = allocate_bump(offset, T, 1)
        /\ \A n \in 0 .. MaxCount :
              push_slice_bump(offset, T, n) = allocate_bump(offset, T, n)

(* C27 witness: a call succeeded and left the cursor odd, so that the next *)
(* push of an aligned type has to round it up, on an arena with room       *)
C27_Witness ==
    /\ AllocRet /\ ret.res = "Some"
    /\ offset % 2 = 1
    /\ offset + 3 <= size

(* C28: single-writer assumption.  allocate reads the cursor and later     *)
(* writes it as two steps; the ranges of the returned handles do not       *)
(* overlap when every allocation runs to completion before the next        *)
(* starts, and an interleaving of two allocations between the read and the *)
(* write reaches a state in which two live handles overlap.                *)
C28_SingleWriter ==
    ~interleaved =>
        \A i, j \in 1 .. Len(handles) : i < j => Disjoint(handles[i], handles[j])

(* C29: Pool<T> generation counter.  The generation is 0 after new(), each *)
(* clear() adds exactly 1 to it and no other operation changes it, and     *)
(* every handle intern returns, on a hit as on a miss, carries the         *)
(* generation that is current at the time of the call.                     *)
C29_GenerationCounter ==
    /\ generation = 0
    /\ []((pool = "Pool" /\ InternRet /\ ret.res = "Some")
              => ret.h.generation = generation)
    /\ [][pool = "Pool" =>
            generation' = IF ret'.op = "clear" THEN generation + 1 ELSE generation]_vars

C29_Witness ==
    /\ pool = "Pool"
    /\ generation >= 1
    /\ InternRet
    /\ ret.hit
    /\ ret.res = "Some"
    /\ ret.h.generation = generation
    /\ len >= 2

(* The bytes an entry of the lookup list covers *)
EntryBytes(h) == IF pool = "Pool" THEN PoolT.size ELSE h.len
EntryValue(h) == Read(data, h.data, EntryBytes(h))

(* C30: pool table invariant.  In every reachable state of Pool<T> and     *)
(* StrPool no two entries of the lookup list are value-equal, the entries  *)
(* are in the order of their first successful intern (every successful     *)
(* miss appends its handle and nothing else changes the list between       *)
(* clears, and the list holds exactly the first handle of every value),    *)
(* and the byte ranges of the entries are pairwise disjoint and lie below  *)
(* the arena cursor.                                                       *)
C30_TableInvariant ==
    /\ [](pool \in {"Pool", "StrPool"} =>
            /\ \A i, j \in 1 .. len :
                  i < j => /\ EntryValue(lookup[i]) # EntryValue(lookup[j])
                           /\ lookup[i].data + EntryBytes(lookup[i]) <= lookup[j].data
            /\ \A i \in 1 .. len : lookup[i].data + EntryBytes(lookup[i]) <= offset
            /\ { lookup[i] : i \in 1 .. len } = { e.h : e \in first }
            /\ \A e \in first : EntryValue(e.h) = e.value)
    /\ [][ret'.op = "intern" =>
            lookup' = IF ~ret'.hit /\ ret'.res = "Some"
                      THEN Append(lookup, ret'.h) ELSE lookup]_vars

C30_Witness ==
    /\ pool = "StrPool"
    /\ len >= 3
    /\ failed
    /\ InternRet
    /\ ret.hit
    /\ \E i \in 1 .. len : lookup[i].len = 0

(* C31: interning the empty string.  StrPool::intern("") returns a handle  *)
(* of length 0, consumes no bytes and is deduplicated on repetition in     *)
(* every pool state, a full arena and an arena of capacity 0 included,     *)
(* without panicking.                                                      *)
C31_EmptyString ==
    [][(pool = "StrPool" /\ ret'.op = "intern" /\ ret'.value = <<>>) =>
          /\ ~panicked'
          /\ ret'.res = "Some"
          /\ ret'.h.len = 0
          /\ offset' = offset
          /\ (<<>> \in Interned => (ret'.hit /\ lookup' = lookup))]_vars

(* C32: clone under exhaustion.  Cloning a handle whose copy does not fit  *)
(* in what is left of the arena returns no handle, so none that aliases    *)
(* the original, and leaves occupied() unchanged: the clone panics at the  *)
(* unwrap of the absent result of push_slice.                              *)
C32_CloneExhausted ==
    (ret.op = "clone" /\ ~ret.fits) => (ret.res = "Panic" /\ occupied = ret.pre)

(* C33: string handle text equals what was written.  For a handle of       *)
(* allocate_string(n) and any sequence of successful write_str calls, the  *)
(* text read through the handle is the concatenation of the written        *)
(* strings and its length is the handle's written length, between 0 and n, *)
(* not the whole reserved region.                                          *)
C33_TextIsWritten ==
    (held.kind = "allocate_string" /\ ~panicked /\ InRegion(held)) =>
        /\ deref(held) = held.written
        /\ Len(deref(held)) = held.wlen
        /\ 0 <= held.wlen
        /\ held.wlen <= held.len

----------------------------------------------------------------------------
(* Claims about the mesh builders *)

(* C34: make_quads mesh shape.  For steps (sx, sy) make_quads returns,     *)
(* when the arena has room for the four views, a mesh with exactly         *)
(* (sx+1)*(sy+1) positions, normals and texcoords (so is_valid() holds)    *)
(* and exactly sx*sy quads, every index of every quad below                *)
(* (sx+1)*(sy+1); when the arena lacks room it returns None.               *)
MakeQuadsBytes(pre, sx, sy) ==
    RoundUp(pre, 4) + (sx + 1) * (sy + 1) * 32 + sx * sy * 16

C34_MakeQuadsShape ==
    ret.op = "make_quads" =>
        LET sx == ret.args[1]
            sy == ret.args[2]
            nv == (sx + 1) * (sy + 1)
        IN  IF MakeQuadsBytes(ret.pre, sx, sy) <= size
            THEN /\ ret.res = "Some"
                 /\ Len(ret.mesh.positions) = nv
                 /\ Len(ret.mesh.normals) = nv
                 /\ Len(ret.mesh.texcoords) = nv
                 /\ Mesh_is_valid(ret.mesh)
                 /\ ret.mesh.kind = "Quad"
                 /\ Len(ret.mesh.elements) = sx * sy
                 /\ \A i \in 1 .. Len(ret.mesh.elements) :
                       \A c \in 1 .. 4 : ret.mesh.elements[i][c] < nv
            ELSE ret.res = "None"

(* C35: merge_meshes preserves connectivity.  For every non-empty list of  *)
(* meshes of the requested element type (and an arena with room), the      *)
(* merged mesh has the sum of the vertex counts and the sum of the element *)
(* counts, and each element of source mesh k appears with each of its      *)
(* indices increased by exactly the total vertex count of the meshes       *)
(* before k, so every merged index is below the merged vertex count and    *)
(* refers to the same vertex as in its source mesh.                        *)
MergeBytes(pre, meshes, element_type) ==
    RoundUp(pre, 4) + element_count(meshes) * ElemT(element_type).size
        + vertex_count(meshes) * 32

C35_MergeConnectivity ==
    (/\ ret.op = "merge_meshes"
     /\ ret.args[1] # <<>>
     /\ \A k \in 1 .. Len(ret.args[1]) : ret.args[1][k].kind = ret.args[2]
     /\ MergeBytes(ret.pre, ret.args[1], ret.args[2]) <= size) =>
        LET meshes == ret.args[1]
            m == ret.mesh
        IN  /\ ret.res = "Some"
            /\ Mesh_len(m) = vertex_count(meshes)
            /\ Len(m.elements) = element_count(meshes)
            /\ \A k \in 1 .. Len(meshes) :
                  LET before == SubSeq(meshes, 1, k - 1)
                      vo == vertex_count(before)
                      eo == element_count(before)
                  IN  \A i \in 1 .. Len(meshes[k].elements) :
                         \A c \in 1 .. Len(meshes[k].elements[i]) :
                            /\ m.elements[eo + i][c] = meshes[k].elements[i][c] + vo
                            /\ m.elements[eo + i][c] < Mesh_len(m)
                            /\ m.positions[m.elements[eo + i][c] + 1]
                                  = meshes[k].positions[meshes[k].elements[i][c] + 1]

(* C36: quads_to_triangles emits one triangle (x, y, w) for a quad with    *)
(* z = w and the two triangles (x, y, w) and (z, w, y) for any other quad, *)
(* and the returned view holds exactly the emitted triangles: its length   *)
(* is the number of triangles written, with no unwritten trailing element. *)
RECURSIVE EmittedTriangles(_)
EmittedTriangles(quads) ==
    IF quads = <<>> THEN <<>>
    ELSE LET q == Head(quads)
         IN  (IF q[3] = q[4] THEN << <<q[1], q[2], q[4]>> >>
              ELSE << <<q[1], q[2], q[4]>>, <<q[3], q[4], q[2]>> >>)
             \o EmittedTriangles(Tail(quads))

C36_TrianglesExact ==
    (ret.op = "quads_to_triangles" /\ ret.res = "Some") =>
        ret.mesh.elements = EmittedTriangles(ret.args[1])

----------------------------------------------------------------------------
(* Claims about the input state *)

(* The flags of a button agree with each other *)
ButtonCoherent(b) ==
    /\ ~(b.pressed /\ b.released)
    /\ ~(b.pressed /\ b.repeat)
    /\ ~(b.released /\ b.repeat)
    /\ (b.pressed \/ b.repeat) => b.down
    /\ b.released => ~b.down

(* C37: button edge detection.  Starting from a default button (all flags  *)
(* false), after every sequence of update(d) calls down() is the last d,   *)
(* pressed() holds iff the button was up and d is true, released() iff it  *)
(* was down and d is false, repeat() iff it was down and d is true; at     *)
(* most one of pressed, released and repeat is true, pressed or repeat     *)
(* implies down, and released implies not down.                            *)
C37_ButtonEdges ==
    /\ ret.op = "new" =>
          \A button \in MouseButtons :
             LET b == Mouse_button(mouse, button)
             IN  ~b.down /\ ~b.pressed /\ ~b.released /\ ~b.repeat
    /\ \A button \in MouseButtons : ButtonCoherent(Mouse_button(mouse, button))
    /\ (ret.op = "update_button" /\ ret.button # "Other") =>
          LET b == Mouse_button(mouse, ret.button)
              was_down == ret.before.down
          IN  /\ b.down = ret.down
              /\ b.pressed = (~was_down /\ ret.down)
              /\ b.released = (was_down /\ ~ret.down)
              /\ b.repeat = (was_down /\ ret.down)

C37_Witness ==
    /\ ret.op = "update_button"
    /\ ret.button = "Left"
    /\ ret.before.pressed
    /\ mouse.left_button.repeat
    /\ mouse.right_button.released
    /\ mouse.middle_button.pressed

(* C38: the mouse position delta follows the Delta convention.  After      *)
(* Mouse::update_position(p) from the previous position q, position() is   *)
(* p and the stored delta is p - q, the sign convention of Delta::update   *)
(* (new value minus previous value), which the clock uses.                 *)
C38_PositionDelta ==
    /\ ret.op = "update_position" =>
          /\ mouse.position.value = ret.p
          /\ mouse.position.delta = Vec2_sub(ret.p, ret.q)
    /\ ret.op = "clock_update" =>
          /\ clock.value = ret.p
          /\ clock.delta = ret.p - ret.q

====
